---- MODULE Spec2Model ----
(***************************************************************************)
(* Disaster-relief routing engine: the Graph class (graph.h), dijkstra,    *)
(* astar and twoOpt (algorithms.h), allocateVehicles (Allocation.h),       *)
(* calculateRouteCost (Utils.h) and the allocate-then-optimise steps of    *)
(* main.                                                                   *)
(*                                                                         *)
(* Edge costs are small naturals (the doubles of the program, all sums     *)
(* exact), reliabilities are percentages.  Vector indices are 1-based here *)
(* and 0-based in the program.                                             *)
(***************************************************************************)
EXTENDS Integers, Sequences, FiniteSets, TLC

VARIABLES
    graph,            \* the Graph object: nodes, adjacencyList, edges
    pc,               \* which call is running and where it is
    source,           \* dijkstra: the source argument
    distances,        \* dijkstra: the returned distMap
    route,            \* twoOpt: the route argument
    bestRoute,        \* twoOpt: local bestRoute (the return value when done)
    improved,         \* twoOpt: local improved
    vehicles,         \* allocateVehicles: the vehicles argument
    assignedVehicles, \* allocateVehicles: local assignedVehicles (returned)
    nodesToAssign,    \* allocateVehicles: local nodesToAssign, after the sort
    nextNode,         \* allocateVehicles: position of the range-for in nodesToAssign
    target,           \* astar: the target argument
    path,             \* astar: the returned path
    routeCost,        \* calculateRouteCost: the returned RouteCost
    calls             \* the addNode and addEdge calls made on graph since Init

vars == <<graph, pc, source, distances, route, bestRoute, improved,
          vehicles, assignedVehicles, nodesToAssign, nextNode, target, path,
          routeCost, calls>>

----------------------------------------------------------------------------
(* Bounds of the model and input domains *)

\* Longest edge list of the graphs dijkstra is run on.
MaxEdges == 3

\* Location ids used by the inputs; 0 is the depot.
NodeIds == 0..3

\* Ids of the graphs dijkstra is run on.
DijkstraIds == 0..2

\* Edge costs of the inputs.
Costs == {0, 1, 3}

\* The depot id, hard-wired in Vehicle and allocateVehicles.
Depot == 0

\* numeric_limits<double>::max(), the "no path" distance.
DBL_MAX == 1000000

\* Return value of getEdgeCost when no edge joins the two ids.
NotFound == -1

----------------------------------------------------------------------------
(* Generic helpers *)

Min(S) == CHOOSE x \in S : \A y \in S : x <= y

\* Sequences over S of length at most n.
SeqsUpTo(S, n) == UNION {[1..k -> S] : k \in 0..n}

\* unordered_map::operator[] on a key: the map after the access (a missing
\* key is inserted with the value-initialised mapped value).
Touch(m, k, default) == IF k \in DOMAIN m THEN m ELSE m @@ (k :> default)

\* unordered_map::operator[] assignment m[k] = v.
Assign(m, k, v) == IF k \in DOMAIN m THEN [m EXCEPT ![k] = v] ELSE m @@ (k :> v)

----------------------------------------------------------------------------
(* graph.h: Node, Edge, Graph *)

Node(id, demand, priority) == [id |-> id, demand |-> demand, priority |-> priority]

Edge(u, v, cost, reliability) == [u |-> u, v |-> v, cost |-> cost, reliability |-> reliability]

EmptyMap == [x \in {} |-> 0]

\* RouteCost(): every field 0.
ZeroCost == [totalTime |-> 0, reliabilityPenalty |-> 0, idleTime |-> 0, finalScore |-> 0]

\* Graph() = default
EmptyGraph == [nodes |-> EmptyMap, adjacencyList |-> EmptyMap, edges |-> <<>>]

\* Faulty variant of addNode: the neighbor list is reset without the find test.
addNodeResettingNeighbors(g, node) ==
    [g EXCEPT !.nodes = Assign(g.nodes, node.id, node),
              !.adjacencyList = Assign(g.adjacencyList, node.id, <<>>)]

addNode(g, node) ==
    [g EXCEPT !.nodes = Assign(g.nodes, node.id, node),
              !.adjacencyList = Touch(g.adjacencyList, node.id, <<>>)]

\* Faulty variant of addEdge: the edge is indexed under edge.u only.
addEdgeOneWay(g, edge) ==
    LET adj0 == Touch(g.adjacencyList, edge.u, <<>>)
        adj1 == [adj0 EXCEPT ![edge.u] = Append(@, [first |-> edge.v, second |-> edge])]
    IN  [g EXCEPT !.edges = Append(g.edges, edge), !.adjacencyList = adj1]

addEdge(g, edge) ==
    LET adj0 == Touch(g.adjacencyList, edge.u, <<>>)
        adj1 == [adj0 EXCEPT ![edge.u] = Append(@, [first |-> edge.v, second |-> edge])]
        adj2 == Touch(adj1, edge.v, <<>>)
        adj3 == [adj2 EXCEPT ![edge.v] = Append(@, [first |-> edge.u, second |-> edge])]
    IN  [g EXCEPT !.edges = Append(g.edges, edge), !.adjacencyList = adj3]

getNeighbors(g, nodeId) ==
    IF nodeId \in DOMAIN g.adjacencyList THEN g.adjacencyList[nodeId] ELSE <<>>

\* getNode returns a pointer; hasNode is "the pointer is not null".
hasNode(g, nodeId) == nodeId \in DOMAIN g.nodes

getNode(g, nodeId) == g.nodes[nodeId]

\* The ids of getAllNodeIds(), which lists them in the unordered_map's
\* iteration order: any order is possible.
getAllNodeIds(g) == DOMAIN g.nodes

RECURSIVE LastMatch(_, _, _)
\* Faulty variant of FirstMatch: the scan goes on to the last matching entry.
LastMatch(nbrs, v, k) ==
    IF k > Len(nbrs) THEN 0
    ELSE LET later == LastMatch(nbrs, v, k + 1)
         IN  IF later /= 0 THEN later
             ELSE IF nbrs[k].first = v THEN k ELSE 0

RECURSIVE FirstMatch(_, _, _)
\* Index of the first entry of a neighbor list whose id is v, 0 when none.
FirstMatch(nbrs, v, k) ==
    IF k > Len(nbrs) THEN 0
    ELSE IF nbrs[k].first = v THEN k
    ELSE FirstMatch(nbrs, v, k + 1)

getEdgeCost(g, u, v) ==
    LET nbrs == getNeighbors(g, u)
        k == FirstMatch(nbrs, v, 1)
    IN  IF k = 0 THEN NotFound ELSE nbrs[k].second.cost

getEdgeReliability(g, u, v) ==
    LET nbrs == getNeighbors(g, u)
        k == FirstMatch(nbrs, v, 1)
    IN  IF k = 0 THEN 0 ELSE nbrs[k].second.reliability

RECURSIVE AddNodes(_, _)
\* The graph after addNode for each node of a sequence.
AddNodes(g, ns) == IF ns = <<>> THEN g ELSE AddNodes(addNode(g, Head(ns)), Tail(ns))

RECURSIVE AddEdges(_, _)
\* The graph after addEdge for each edge of a sequence.
AddEdges(g, es) == IF es = <<>> THEN g ELSE AddEdges(addEdge(g, Head(es)), Tail(es))

\* A set of nodes listed in ascending id order (the loader adds nodes, then edges).
RECURSIVE NodeSeq(_)
NodeSeq(S) ==
    IF S = {} THEN <<>>
    ELSE LET n == CHOOSE x \in S : \A y \in S : x.id <= y.id
         IN  <<n>> \o NodeSeq(S \ {n})

LoadGraph(nodeSet, edgeSeq) == AddEdges(AddNodes(EmptyGraph, NodeSeq(nodeSet)), edgeSeq)

\* Graph::numNodes
numNodes(g) == Cardinality(DOMAIN g.nodes)

\* Graph::numEdges
numEdges(g) == Len(g.edges)

----------------------------------------------------------------------------
(* Building a graph: addNode and addEdge calls on an empty Graph *)

\* Most calls made on a graph.
MaxCalls == 3

\* Ids of the nodes and edges that are added.
GraphIds == 0..2

\* The nodes passed to addNode.
GraphNodeInputs == {Node(i, d, 1) : i \in GraphIds, d \in {0, 1}}

\* The edges passed to addEdge, with any two ids as endpoints, in either order.
GraphEdgeInputs ==
    {Edge(u, v, 1, 100) : u \in GraphIds, v \in GraphIds}
        \cup {Edge(u, v, 2, 50) : u \in GraphIds, v \in GraphIds}

InitGraph ==
    /\ graph = EmptyGraph
    /\ calls = <<>>
    /\ pc = "ready"
    /\ source = Depot
    /\ distances = EmptyMap
    /\ route = <<>>
    /\ bestRoute = <<>>
    /\ improved = FALSE
    /\ vehicles = <<>>
    /\ assignedVehicles = <<>>
    /\ nodesToAssign = <<>>
    /\ nextNode = 0
    /\ target = Depot
    /\ path = <<>>
    /\ routeCost = ZeroCost

\* graph.addNode(node)
CallAddNode(node) ==
    /\ Len(calls) < MaxCalls
    /\ graph' = addNode(graph, node)
    /\ calls' = Append(calls, [op |-> "addNode", node |-> node])
    /\ UNCHANGED <<pc, source, distances, route, bestRoute, improved, vehicles,
                   assignedVehicles, nodesToAssign, nextNode, target, path, routeCost>>

\* graph.addEdge(edge)
CallAddEdge(edge) ==
    /\ Len(calls) < MaxCalls
    /\ graph' = addEdge(graph, edge)
    /\ calls' = Append(calls, [op |-> "addEdge", edge |-> edge])
    /\ UNCHANGED <<pc, source, distances, route, bestRoute, improved, vehicles,
                   assignedVehicles, nodesToAssign, nextNode, target, path, routeCost>>

NextGraph ==
    \/ \E node \in GraphNodeInputs : CallAddNode(node)
    \/ \E edge \in GraphEdgeInputs : CallAddEdge(edge)

SpecGraph == InitGraph /\ [][NextGraph]_vars

----------------------------------------------------------------------------
(* algorithms.h: dijkstra *)

\* Faulty variant of PqTop: a max-heap (std::less instead of std::greater).
PqTopMax(pq) ==
    CHOOSE p \in pq : \A q \in pq : p[1] > q[1] \/ (p[1] = q[1] /\ p[2] >= q[2])

\* priority_queue<pair<double,int>, ..., greater<>>::top(): the least pair,
\* by distance and then by node id.
PqTop(pq) ==
    CHOOSE p \in pq : \A q \in pq : p[1] < q[1] \/ (p[1] = q[1] /\ p[2] <= q[2])

RECURSIVE RelaxNeighbors(_, _, _, _)
\* The for loop over getNeighbors(u), from its k-th entry; st holds distMap,
\* visited and pq.
RelaxNeighbors(nbrs, u, k, st) ==
    IF k > Len(nbrs) THEN st
    ELSE LET v == nbrs[k].first
             edgeCost == nbrs[k].second.cost
             vis == Touch(st.visited, v, FALSE)
         IN  IF vis[v]
             THEN RelaxNeighbors(nbrs, u, k + 1, [st EXCEPT !.visited = vis])
             ELSE LET dm == Touch(st.distMap, v, 0)
                  IN  IF dm[u] + edgeCost < dm[v]
                      THEN RelaxNeighbors(nbrs, u, k + 1,
                              [distMap |-> [dm EXCEPT ![v] = dm[u] + edgeCost],
                               visited |-> vis,
                               pq |-> st.pq \cup {<<dm[u] + edgeCost, v>>}])
                      ELSE RelaxNeighbors(nbrs, u, k + 1,
                              [distMap |-> dm, visited |-> vis, pq |-> st.pq])

RECURSIVE DijkstraLoop(_, _)
\* while (!pq.empty())
DijkstraLoop(g, st) ==
    IF st.pq = {} THEN st.distMap
    ELSE LET top == PqTop(st.pq)
             u == top[2]
             pq1 == st.pq \ {top}
             vis == Touch(st.visited, u, FALSE)
         IN  IF vis[u]
             THEN DijkstraLoop(g, [st EXCEPT !.pq = pq1, !.visited = vis])
             ELSE DijkstraLoop(g, RelaxNeighbors(getNeighbors(g, u), u, 1,
                                     [distMap |-> st.distMap,
                                      visited |-> [vis EXCEPT ![u] = TRUE],
                                      pq |-> pq1]))

dijkstra(g, s) ==
    LET ids == getAllNodeIds(g)
        distMap0 == [n \in ids |-> DBL_MAX]
        visited0 == [n \in ids |-> FALSE]
    IN  DijkstraLoop(g, [distMap |-> Assign(distMap0, s, 0),
                         visited |-> visited0,
                         pq |-> {<<0, s>>}])

----------------------------------------------------------------------------
(* Calls of dijkstra on loaded graphs *)

DeclaredNodeSets == {{Node(i, 1, 1) : i \in S} : S \in SUBSET DijkstraIds}

DijkstraEdges == {Edge(u, v, c, 100) : u \in DijkstraIds, v \in DijkstraIds, c \in Costs}

DijkstraEdgeInputs == {e \in DijkstraEdges : e.u < e.v}

Idle ==
    /\ source = Depot
    /\ distances = EmptyMap
    /\ route = <<>>
    /\ bestRoute = <<>>
    /\ improved = FALSE
    /\ vehicles = <<>>
    /\ assignedVehicles = <<>>
    /\ nodesToAssign = <<>>
    /\ nextNode = 0
    /\ target = Depot
    /\ path = <<>>
    /\ routeCost = ZeroCost
    /\ calls = <<>>

InitDijkstra ==
    /\ \E ns \in DeclaredNodeSets, es \in SeqsUpTo(DijkstraEdgeInputs, MaxEdges) :
          graph = LoadGraph(ns, es)
    /\ pc = "ready"
    /\ Idle

CallDijkstra(s) ==
    /\ pc = "ready"
    /\ source' = s
    /\ distances' = dijkstra(graph, s)
    /\ pc' = "dijkstraDone"
    /\ UNCHANGED <<graph, route, bestRoute, improved, vehicles, assignedVehicles,
                   nodesToAssign, nextNode,
                   target, path, routeCost, calls>>

NextDijkstra == \E s \in DijkstraIds : CallDijkstra(s)

SpecDijkstra == InitDijkstra /\ [][NextDijkstra]_vars

----------------------------------------------------------------------------
(* algorithms.h: astar *)

\* abs(a - b), the heuristic of astar.
Abs(x) == IF x < 0 THEN 0 - x ELSE x

RECURSIVE AstarNeighbors(_, _, _, _, _)
\* The for loop over getNeighbors(current), from its k-th entry; st holds
\* gScore, fScore, cameFrom, visited and pq.  There is no test of visited[v].
AstarNeighbors(nbrs, current, tgt, k, st) ==
    IF k > Len(nbrs) THEN st
    ELSE LET v == nbrs[k].first
             edgeCost == nbrs[k].second.cost
             gs0 == Touch(st.gScore, current, 0)
             tentativeGScore == gs0[current] + edgeCost
             gs == Touch(gs0, v, 0)
         IN  IF tentativeGScore < gs[v]
             THEN AstarNeighbors(nbrs, current, tgt, k + 1,
                     [gScore |-> [gs EXCEPT ![v] = tentativeGScore],
                      fScore |-> Assign(st.fScore, v, tentativeGScore + Abs(v - tgt)),
                      cameFrom |-> Assign(st.cameFrom, v, current),
                      visited |-> st.visited,
                      pq |-> st.pq \cup {<<tentativeGScore + Abs(v - tgt), v>>}])
             ELSE AstarNeighbors(nbrs, current, tgt, k + 1, [st EXCEPT !.gScore = gs])

RECURSIVE ReconstructPath(_, _)
\* The path that ends at node: cameFrom is followed back to an id without an
\* entry, and the list is reversed.
ReconstructPath(cameFrom, node) ==
    IF node \in DOMAIN cameFrom
    THEN Append(ReconstructPath(cameFrom, cameFrom[node]), node)
    ELSE <<node>>

RECURSIVE AstarLoop(_, _, _)
\* while (!pq.empty()); the empty path when the queue runs out.
AstarLoop(g, tgt, st) ==
    IF st.pq = {} THEN <<>>
    ELSE LET top == PqTop(st.pq)
             current == top[2]
             pq1 == st.pq \ {top}
             vis == Touch(st.visited, current, FALSE)
         IN  IF vis[current]
             THEN AstarLoop(g, tgt, [st EXCEPT !.pq = pq1, !.visited = vis])
             ELSE IF current = tgt
             THEN ReconstructPath(st.cameFrom, tgt)
             ELSE AstarLoop(g, tgt,
                     AstarNeighbors(getNeighbors(g, current), current, tgt, 1,
                         [st EXCEPT !.pq = pq1, !.visited = [vis EXCEPT ![current] = TRUE]]))

astar(g, s, tgt) ==
    LET ids == getAllNodeIds(g)
    IN  AstarLoop(g, tgt,
            [gScore |-> Assign([n \in ids |-> DBL_MAX], s, 0),
             fScore |-> Assign([n \in ids |-> DBL_MAX], s, Abs(s - tgt)),
             cameFrom |-> EmptyMap,
             visited |-> [n \in ids |-> FALSE],
             pq |-> {<<Abs(s - tgt), s>>}])

----------------------------------------------------------------------------
(* algorithms.h: twoOpt *)

RECURSIVE RouteCostFrom(_, _, _, _)
\* The cost loop of twoOpt over r from its k-th pair: it stops at the first
\* pair getEdgeCost has no road for (valid = false).
RouteCostFrom(g, r, k, acc) ==
    IF k > Len(r) - 1 THEN [valid |-> TRUE, cost |-> acc]
    ELSE LET cost == getEdgeCost(g, r[k], r[k + 1])
         IN  IF cost < 0 THEN [valid |-> FALSE, cost |-> acc]
             ELSE RouteCostFrom(g, r, k + 1, acc + cost)

\* Faulty variant of ReverseSegment: reverse(begin + i, end), which moves the
\* last element.
ReverseToEnd(r, i, j) ==
    [k \in 1..Len(r) |-> IF i + 1 <= k THEN r[(i + 1) + Len(r) - k] ELSE r[k]]

\* reverse(newRoute.begin() + i, newRoute.begin() + j + 1), i and j 0-based.
ReverseSegment(r, i, j) ==
    [k \in 1..Len(r) |-> IF i + 1 <= k /\ k <= j + 1 THEN r[(i + 1) + (j + 1) - k] ELSE r[k]]

\* Faulty variant of Improves: the comparison the wrong way round.
ImprovesFlipped(new, currentCost) == new.valid /\ new.cost > currentCost

\* Faulty variant of Improves: valid is not tested.
ImprovesIgnoringValid(new, currentCost) == new.cost < currentCost

\* Faulty variant of Improves: <= instead of <.
ImprovesOrEqual(new, currentCost) == new.valid /\ new.cost <= currentCost

\* The acceptance test: valid && newCost < currentCost.
Improves(new, currentCost) == new.valid /\ new.cost < currentCost

RECURSIVE ScanPairsFirstRow(_, _, _, _)
\* Faulty variant of ScanPairs: the outer loop stops after its first value of i.
ScanPairsFirstRow(g, r, i, j) ==
    IF ~(i < Len(r) - 2) THEN [improved |-> FALSE, bestRoute |-> r]
    ELSE IF ~(j < Len(r) - 1) THEN [improved |-> FALSE, bestRoute |-> r]
    ELSE LET current == RouteCostFrom(g, r, 1, 0)
             newRoute == ReverseSegment(r, i, j)
         IN  IF ~current.valid THEN ScanPairsFirstRow(g, r, i, j + 1)
             ELSE IF Improves(RouteCostFrom(g, newRoute, 1, 0), current.cost)
             THEN [improved |-> TRUE, bestRoute |-> newRoute]
             ELSE ScanPairsFirstRow(g, r, i, j + 1)

RECURSIVE ScanPairs(_, _, _, _)
\* The two for loops of one pass of the while loop, from the pair (i, j)
\* (0-based): the first accepted reversal ends the pass.
ScanPairs(g, r, i, j) ==
    IF ~(i < Len(r) - 2) THEN [improved |-> FALSE, bestRoute |-> r]
    ELSE IF ~(j < Len(r) - 1) THEN ScanPairs(g, r, i + 1, i + 2)
    ELSE LET current == RouteCostFrom(g, r, 1, 0)
             newRoute == ReverseSegment(r, i, j)
         IN  IF ~current.valid THEN ScanPairs(g, r, i, j + 1)
             ELSE IF Improves(RouteCostFrom(g, newRoute, 1, 0), current.cost)
             THEN [improved |-> TRUE, bestRoute |-> newRoute]
             ELSE ScanPairs(g, r, i, j + 1)

\* twoOpt(graph, route) up to the while loop.
TwoOptCall ==
    /\ pc = "ready"
    /\ bestRoute' = route
    /\ IF Len(route) <= 3
       THEN pc' = "twoOptDone" /\ improved' = improved
       ELSE pc' = "twoOptLoop" /\ improved' = TRUE
    /\ UNCHANGED <<graph, source, distances, route, vehicles, assignedVehicles,
                   nodesToAssign, nextNode,
                   target, path, routeCost, calls>>

\* One pass of while (improved).
TwoOptPass ==
    /\ pc = "twoOptLoop"
    /\ improved
    /\ LET pass == ScanPairs(graph, bestRoute, 1, 2)
       IN  bestRoute' = pass.bestRoute /\ improved' = pass.improved
    /\ UNCHANGED <<graph, pc, source, distances, route, vehicles, assignedVehicles,
                   nodesToAssign, nextNode,
                   target, path, routeCost, calls>>

\* The loop ends and bestRoute is returned.
TwoOptReturn ==
    /\ pc = "twoOptLoop"
    /\ ~improved
    /\ pc' = "twoOptDone"
    /\ UNCHANGED <<graph, source, distances, route, bestRoute, improved, vehicles,
                   assignedVehicles, nodesToAssign, nextNode,
                   target, path, routeCost, calls>>

RECURSIVE TwoOptLoop(_, _)
\* while (improved) as a whole: passes until one accepts no reversal.
TwoOptLoop(g, r) ==
    LET pass == ScanPairs(g, r, 1, 2)
    IN  IF pass.improved THEN TwoOptLoop(g, pass.bestRoute) ELSE r

\* The value twoOpt(graph, route) returns.
twoOpt(g, r) == IF Len(r) <= 3 THEN r ELSE TwoOptLoop(g, r)

----------------------------------------------------------------------------
(* Calls of twoOpt: a road table over the ids and a route *)

\* Longest route twoOpt is called with.
MaxRouteLen == 5

\* "no road" in a road table.
NoRoad == NotFound

Pairs(ids) == {p \in ids \X ids : p[1] < p[2]}

RECURSIVE PairSeq(_)
\* A set of id pairs in lexicographic order.
PairSeq(S) ==
    IF S = {} THEN <<>>
    ELSE LET p == CHOOSE x \in S : \A y \in S : x[1] < y[1] \/ (x[1] = y[1] /\ x[2] <= y[2])
         IN  <<p>> \o PairSeq(S \ {p})

\* The edges of a road table (pair -> cost or NoRoad), in pair order.
TableEdges(table) ==
    LET ps == PairSeq({p \in DOMAIN table : table[p] /= NoRoad})
    IN  [k \in 1..Len(ps) |-> Edge(ps[k][1], ps[k][2], table[ps[k]], 100)]

RoadTables(ids, costs) == [Pairs(ids) -> costs \cup {NoRoad}]

TwoOptCosts == {1, 3}

\* Routes that start at the depot and never stay in place.
TwoOptRoutes ==
    {r \in SeqsUpTo(NodeIds, MaxRouteLen) :
        /\ r /= <<>> => r[1] = Depot
        /\ \A k \in 1..(Len(r) - 1) : r[k] /= r[k + 1]}

InitTwoOpt ==
    /\ \E table \in RoadTables(NodeIds, TwoOptCosts) :
          graph = LoadGraph({Node(i, 1, 1) : i \in NodeIds}, TableEdges(table))
    /\ pc = "ready"
    /\ source = Depot
    /\ distances = EmptyMap
    /\ route \in TwoOptRoutes
    /\ bestRoute = <<>>
    /\ improved = FALSE
    /\ vehicles = <<>>
    /\ assignedVehicles = <<>>
    /\ nodesToAssign = <<>>
    /\ nextNode = 0
    /\ target = Depot
    /\ path = <<>>
    /\ routeCost = ZeroCost
    /\ calls = <<>>

NextTwoOpt == TwoOptCall \/ TwoOptPass \/ TwoOptReturn

SpecTwoOpt == InitTwoOpt /\ [][NextTwoOpt]_vars

----------------------------------------------------------------------------
(* Calls of astar and dijkstra on loaded graphs *)

\* Ids of the graphs astar is run on.
AstarIds == 0..3

\* Edge costs of the graphs astar is run on.
AstarCosts == {0, 1, 3, 4}

\* Every id declared; each pair of ids joined by one road or none.
InitAstar ==
    /\ \E table \in RoadTables(AstarIds, AstarCosts) :
          graph = LoadGraph({Node(i, 1, 1) : i \in AstarIds}, TableEdges(table))
    /\ pc = "ready"
    /\ Idle

\* astar(graph, s, t), and dijkstra(graph, s) to compare it with.
CallAstar(s, t) ==
    /\ pc = "ready"
    /\ source' = s
    /\ target' = t
    /\ path' = astar(graph, s, t)
    /\ distances' = dijkstra(graph, s)
    /\ pc' = "astarDone"
    /\ UNCHANGED <<graph, route, bestRoute, improved, vehicles, assignedVehicles,
                   nodesToAssign, nextNode, routeCost, calls>>

NextAstar == \E s \in AstarIds, t \in AstarIds : CallAstar(s, t)

SpecAstar == InitAstar /\ [][NextAstar]_vars

----------------------------------------------------------------------------
(* Allocation.h: Vehicle and allocateVehicles *)

\* Vehicle(int id, int capacity): load 0, route = [depot].
Vehicle(id, capacity) ==
    [id |-> id, capacity |-> capacity, currentLoad |-> 0, route |-> <<Depot>>]

\* Faulty variant of canServe: the demand left out of the check.
canServeIgnoringDemand(vehicle, demand) == vehicle.currentLoad <= vehicle.capacity

\* Vehicle::canServe
canServe(vehicle, demand) == vehicle.currentLoad + demand <= vehicle.capacity

\* Faulty variant of Vehicle_addNode: currentLoad = demand instead of +=.
Vehicle_addNodeLoadSet(vehicle, nodeId, demand) ==
    [vehicle EXCEPT !.route = Append(@, nodeId), !.currentLoad = demand]

\* Vehicle::addNode
Vehicle_addNode(vehicle, nodeId, demand) ==
    [vehicle EXCEPT !.route = Append(@, nodeId), !.currentLoad = @ + demand]

finalizeRoute(vehicle) == [vehicle EXCEPT !.route = Append(@, Depot)]

\* Faulty variant of CollectNodes: the test nodeId != 0 left out.
CollectNodesWithDepot(g) ==
    {nodeId \in getAllNodeIds(g) : hasNode(g, nodeId) /\ getNode(g, nodeId).demand > 0}

\* The ids the first loop pushes to nodesToAssign: every id of getAllNodeIds()
\* but the depot whose node has demand > 0.
CollectNodes(g) ==
    {nodeId \in getAllNodeIds(g) :
        nodeId /= Depot /\ hasNode(g, nodeId) /\ getNode(g, nodeId).demand > 0}

\* The sort's comparator: a goes before b.
HigherPriority(g, a, b) ==
    IF ~hasNode(g, a) \/ ~hasNode(g, b) THEN FALSE
    ELSE getNode(g, a).priority > getNode(g, b).priority

\* What nodesToAssign can be after the sort.  getAllNodeIds() lists the ids in
\* the hash map's order and std::sort is not stable, so among ids the
\* comparator does not order any arrangement can come out.
SortedOrders(g, S) ==
    {order \in [1..Cardinality(S) -> S] :
        /\ \A k, l \in 1..Cardinality(S) : k /= l => order[k] /= order[l]
        /\ \A k, l \in 1..Cardinality(S) : k < l => ~HigherPriority(g, order[l], order[k])}

\* Faulty variant of DistOf: an unreached location counts as distance 0.
DistOfUnreachedAsZero(dm, x) == IF x \in DOMAIN dm /\ dm[x] < DBL_MAX THEN dm[x] ELSE 0

\* The extraCost read from a returned distMap: a missing key is "no path".
DistOf(dm, x) == IF x \in DOMAIN dm THEN dm[x] ELSE DBL_MAX

RECURSIVE FindBestVehicleAnyCost(_, _, _, _, _, _)
\* Faulty variant of FindBestVehicle: extraCost <= minExtraCost, and no test
\* against numeric_limits<double>::max().
FindBestVehicleAnyCost(g, avs, nodeId, i, bestVehicle, minExtraCost) ==
    IF i > Len(avs) THEN bestVehicle
    ELSE IF ~canServe(avs[i], getNode(g, nodeId).demand)
    THEN FindBestVehicleAnyCost(g, avs, nodeId, i + 1, bestVehicle, minExtraCost)
    ELSE LET lastNode == avs[i].route[Len(avs[i].route)]
             extraCost == DistOf(dijkstra(g, lastNode), nodeId)
         IN  IF extraCost <= minExtraCost
             THEN FindBestVehicleAnyCost(g, avs, nodeId, i + 1, i, extraCost)
             ELSE FindBestVehicleAnyCost(g, avs, nodeId, i + 1, bestVehicle, minExtraCost)

RECURSIVE FindBestVehicle(_, _, _, _, _, _)
\* The inner for loop from vehicle i on (1-based; bestVehicle = 0 is the
\* program's -1): the result is the final bestVehicle.
FindBestVehicle(g, avs, nodeId, i, bestVehicle, minExtraCost) ==
    IF i > Len(avs) THEN bestVehicle
    ELSE IF ~canServe(avs[i], getNode(g, nodeId).demand)
    THEN FindBestVehicle(g, avs, nodeId, i + 1, bestVehicle, minExtraCost)
    ELSE LET lastNode == avs[i].route[Len(avs[i].route)]
             extraCost == DistOf(dijkstra(g, lastNode), nodeId)
         IN  IF extraCost < minExtraCost /\ extraCost < DBL_MAX
             THEN FindBestVehicle(g, avs, nodeId, i + 1, i, extraCost)
             ELSE FindBestVehicle(g, avs, nodeId, i + 1, bestVehicle, minExtraCost)

\* Faulty variant of AssignTo: the node is added to every vehicle that can
\* serve it.
AssignToAll(g, avs, nodeId, bestVehicle) ==
    [i \in 1..Len(avs) |->
        IF bestVehicle /= 0 /\ canServe(avs[i], getNode(g, nodeId).demand)
        THEN Vehicle_addNode(avs[i], nodeId, getNode(g, nodeId).demand)
        ELSE avs[i]]

\* if (bestVehicle >= 0) assignedVehicles[bestVehicle].addNode(...)
AssignTo(g, avs, nodeId, bestVehicle) ==
    IF bestVehicle = 0 THEN avs
    ELSE [avs EXCEPT ![bestVehicle] =
              Vehicle_addNode(@, nodeId, getNode(g, nodeId).demand)]

\* One iteration of the loop over nodesToAssign.
AssignNode(g, avs, nodeId) ==
    IF ~hasNode(g, nodeId) THEN avs
    ELSE AssignTo(g, avs, nodeId, FindBestVehicle(g, avs, nodeId, 1, 0, DBL_MAX))

\* allocateVehicles up to the assignment loop: copy the vehicles, collect the
\* nodes with demand, sort them by priority.
AllocBegin ==
    /\ pc = "ready"
    /\ assignedVehicles' = vehicles
    /\ nodesToAssign' \in SortedOrders(graph, CollectNodes(graph))
    /\ nextNode' = 1
    /\ pc' = "assign"
    /\ UNCHANGED <<graph, source, distances, route, bestRoute, improved, vehicles,
                   target, path, routeCost, calls>>

\* One iteration of for (int nodeId : nodesToAssign).
AllocAssign ==
    /\ pc = "assign"
    /\ nextNode <= Len(nodesToAssign)
    /\ assignedVehicles' = AssignNode(graph, assignedVehicles, nodesToAssign[nextNode])
    /\ nextNode' = nextNode + 1
    /\ UNCHANGED <<graph, pc, source, distances, route, bestRoute, improved, vehicles,
                   nodesToAssign,
                   target, path, routeCost, calls>>

\* The finalizeRoute loop and the return.
AllocFinalize ==
    /\ pc = "assign"
    /\ nextNode > Len(nodesToAssign)
    /\ assignedVehicles' = [i \in 1..Len(assignedVehicles) |-> finalizeRoute(assignedVehicles[i])]
    /\ pc' = "allocDone"
    /\ UNCHANGED <<graph, source, distances, route, bestRoute, improved, vehicles,
                   nodesToAssign, nextNode,
                   target, path, routeCost, calls>>

----------------------------------------------------------------------------
(* Calls of allocateVehicles *)

\* Most vehicles in a call.
MaxVehicles == 2

Demands == {1, 2}

Priorities == {1, 2}

Capacities == {1, 3}

\* The roads of the allocation inputs: 0-1, 0-2, 0-3, 1-2 and 2-3, each present with
\* a cost of AllocCosts or missing.
AllocRoads == {<<0, 1>>, <<0, 2>>, <<0, 3>>, <<1, 2>>, <<2, 3>>}

AllocCosts == {1, 3}

\* The depot is a location with demand of its own; 1 and 2 have demand; 3 is
\* not declared, or has no demand, or has demand.
AllocNodeSets ==
    {{Node(0, 1, 2), Node(1, d1, p1), Node(2, d2, 1)} \cup n3 :
        d1 \in Demands, p1 \in Priorities, d2 \in Demands,
        n3 \in {{}, {Node(3, 0, 1)}, {Node(3, 1, 1)}}}

InitAlloc ==
    /\ \E ns \in AllocNodeSets, table \in [AllocRoads -> AllocCosts \cup {NoRoad}] :
          graph = LoadGraph(ns, TableEdges(table))
    /\ pc = "ready"
    /\ source = Depot
    /\ distances = EmptyMap
    /\ route = <<>>
    /\ bestRoute = <<>>
    /\ improved = FALSE
    /\ \E caps \in UNION {[1..k -> Capacities] : k \in 1..MaxVehicles} :
          vehicles = [i \in 1..Len(caps) |-> Vehicle(i, caps[i])]
    /\ assignedVehicles = <<>>
    /\ nodesToAssign = <<>>
    /\ nextNode = 0
    /\ target = Depot
    /\ path = <<>>
    /\ routeCost = ZeroCost
    /\ calls = <<>>

NextAlloc == AllocBegin \/ AllocAssign \/ AllocFinalize

SpecAlloc == InitAlloc /\ [][NextAlloc]_vars

----------------------------------------------------------------------------
(* Utils.h: calculateRouteCost *)

\* Longest route calculateRouteCost is called with.
MaxCostRouteLen == 3

\* Reliabilities are percentages; the running product totalReliability and
\* reliabilityPenalty are kept in units of 1 / RelScale, finalScore in units
\* of 1 / (10 * RelScale).  All values of the inputs are exact in these units.
RelScale == 100 ^ (MaxCostRouteLen - 1)

\* The weights 0.6, 0.3 and 0.1, in tenths.
ALPHA == 6

BETA == 3

GAMMA == 1

RECURSIVE CostLoopNoSkip(_, _, _, _)
\* Faulty variant of CostLoop: the test edgeCost >= 0 left out.
CostLoopNoSkip(g, r, i, acc) ==
    IF i > Len(r) - 1 THEN acc
    ELSE CostLoopNoSkip(g, r, i + 1,
             [totalTime |-> acc.totalTime + getEdgeCost(g, r[i], r[i + 1]),
              totalReliability |->
                  (acc.totalReliability * getEdgeReliability(g, r[i], r[i + 1])) \div 100])

RECURSIVE CostLoop(_, _, _, _)
\* The for loop over the consecutive pairs of the route, from the i-th on.
CostLoop(g, r, i, acc) ==
    IF i > Len(r) - 1 THEN acc
    ELSE LET edgeCost == getEdgeCost(g, r[i], r[i + 1])
             edgeReliability == getEdgeReliability(g, r[i], r[i + 1])
         IN  IF edgeCost >= 0
             THEN CostLoop(g, r, i + 1,
                     [totalTime |-> acc.totalTime + edgeCost,
                      totalReliability |-> (acc.totalReliability * edgeReliability) \div 100])
             ELSE CostLoop(g, r, i + 1, acc)

\* Faulty variant of calculateRouteCost: no early return for short routes.
calculateRouteCostNoEarlyReturn(g, r, vehicleCapacity, vehicleLoad) ==
    LET acc == CostLoop(g, r, 1, [totalTime |-> 0, totalReliability |-> RelScale])
        unusedCapacity == vehicleCapacity - vehicleLoad
    IN  [totalTime |-> acc.totalTime,
         reliabilityPenalty |-> RelScale - acc.totalReliability,
         idleTime |-> unusedCapacity,
         finalScore |-> ALPHA * acc.totalTime * RelScale
                          + BETA * (RelScale - acc.totalReliability)
                          + GAMMA * unusedCapacity * RelScale]

calculateRouteCost(g, r, vehicleCapacity, vehicleLoad) ==
    IF Len(r) < 2 THEN ZeroCost
    ELSE LET acc == CostLoop(g, r, 1, [totalTime |-> 0, totalReliability |-> RelScale])
             unusedCapacity == vehicleCapacity - vehicleLoad
         IN  [totalTime |-> acc.totalTime,
              reliabilityPenalty |-> RelScale - acc.totalReliability,
              idleTime |-> unusedCapacity,
              finalScore |-> ALPHA * acc.totalTime * RelScale
                               + BETA * (RelScale - acc.totalReliability)
                               + GAMMA * unusedCapacity * RelScale]

----------------------------------------------------------------------------
(* Calls of calculateRouteCost *)

\* Most edges of the graphs a route is scored on.
MaxCostEdges == 2

\* Ids of the graphs and routes that are scored.
CostIds == 0..2

\* Roads of the scored graphs: cost 0 or 2, reliability 1.0 or 0.5; the same
\* pair of ids may get several roads.
CostEdgeInputs ==
    {e \in {Edge(u, v, c, rel) : u \in CostIds, v \in CostIds, c \in {0, 2}, rel \in {100, 50}} :
        e.u < e.v}

\* A vehicle with any route, full or not.
CostVehicles ==
    {[id |-> 1, capacity |-> 3, currentLoad |-> load, route |-> r] :
        load \in {1, 3}, r \in SeqsUpTo(CostIds, MaxCostRouteLen)}

InitCost ==
    /\ \E es \in SeqsUpTo(CostEdgeInputs, MaxCostEdges) :
          graph = LoadGraph({Node(i, 1, 1) : i \in CostIds}, es)
    /\ \E vehicle \in CostVehicles : vehicles = <<vehicle>>
    /\ pc = "ready"
    /\ source = Depot
    /\ distances = EmptyMap
    /\ route = <<>>
    /\ bestRoute = <<>>
    /\ improved = FALSE
    /\ assignedVehicles = <<>>
    /\ nodesToAssign = <<>>
    /\ nextNode = 0
    /\ target = Depot
    /\ path = <<>>
    /\ routeCost = ZeroCost
    /\ calls = <<>>

\* calculateRouteCost(graph, vehicle.route, vehicle.capacity, vehicle.currentLoad)
CallCalculateRouteCost ==
    /\ pc = "ready"
    /\ routeCost' = calculateRouteCost(graph, vehicles[1].route, vehicles[1].capacity,
                                       vehicles[1].currentLoad)
    /\ pc' = "costDone"
    /\ UNCHANGED <<graph, source, distances, route, bestRoute, improved, vehicles,
                   assignedVehicles, nodesToAssign, nextNode, target, path, calls>>

NextCost == CallCalculateRouteCost

SpecCost == InitCost /\ [][NextCost]_vars

----------------------------------------------------------------------------
(* main: allocateVehicles, then twoOpt on every returned route *)

\* Step 2 of main: vehicles holds the result of allocateVehicles and every
\* vehicle's route is replaced by twoOpt of it.
MainOptimize ==
    /\ pc = "allocDone"
    /\ vehicles' = [i \in 1..Len(assignedVehicles) |->
                       [assignedVehicles[i] EXCEPT !.route = twoOpt(graph, @)]]
    /\ pc' = "mainDone"
    /\ UNCHANGED <<graph, source, distances, route, bestRoute, improved,
                   assignedVehicles, nodesToAssign, nextNode,
                   target, path, routeCost, calls>>

\* What main starts from besides the graph and the vehicles.
MainIdle ==
    /\ pc = "ready"
    /\ source = Depot
    /\ distances = EmptyMap
    /\ route = <<>>
    /\ bestRoute = <<>>
    /\ improved = FALSE
    /\ assignedVehicles = <<>>
    /\ nodesToAssign = <<>>
    /\ nextNode = 0
    /\ target = Depot
    /\ path = <<>>
    /\ routeCost = ZeroCost
    /\ calls = <<>>

\* The input of the single-vehicle scenario: locations 1 (demand 5, priority
\* 3) and 2 (demand 5, priority 5), roads 0-1 (cost 2), 0-2 (cost 3,
\* reliability 0.9) and 1-2 (cost 1), one vehicle of capacity 10.
SingleVehicleGraph ==
    LoadGraph({Node(0, 0, 0), Node(1, 5, 3), Node(2, 5, 5)},
              <<Edge(0, 1, 2, 100), Edge(0, 2, 3, 90), Edge(1, 2, 1, 100)>>)

InitSingleVehicle ==
    /\ graph = SingleVehicleGraph
    /\ vehicles = <<Vehicle(1, 10)>>
    /\ MainIdle

\* The inputs of the two-vehicle scenario: two locations of demand 5 with
\* priorities 5 and 1, any roads of AllocRoads (id 3 is not declared), two
\* vehicles of capacity 5.
TwoVehicleNodeSets ==
    {{Node(0, 0, 0), Node(1, 5, 5), Node(2, 5, 1)},
     {Node(0, 0, 0), Node(1, 5, 1), Node(2, 5, 5)}}

InitTwoVehicles ==
    /\ \E ns \in TwoVehicleNodeSets, table \in [AllocRoads -> AllocCosts \cup {NoRoad}] :
          graph = LoadGraph(ns, TableEdges(table))
    /\ vehicles = <<Vehicle(1, 5), Vehicle(2, 5)>>
    /\ MainIdle

InitMain == InitAlloc \/ InitSingleVehicle \/ InitTwoVehicles

NextMain == AllocBegin \/ AllocAssign \/ AllocFinalize \/ MainOptimize

SpecMain == InitMain /\ [][NextMain]_vars

----------------------------------------------------------------------------
(* Shortest paths, defined from the road list alone (Bellman-Ford rounds) *)

\* Every id the graph mentions: declared locations and edge endpoints.
Vertices(g) ==
    DOMAIN g.nodes \cup DOMAIN g.adjacencyList
        \cup {g.edges[i].u : i \in 1..Len(g.edges)}
        \cup {g.edges[i].v : i \in 1..Len(g.edges)}

\* One round: each vertex keeps its distance or takes a cheaper one over a road.
RelaxRound(g, V, D) ==
    [x \in V |->
        Min({D[x]}
            \cup {D[g.edges[i].u] + g.edges[i].cost :
                    i \in {j \in 1..Len(g.edges) :
                             g.edges[j].v = x /\ D[g.edges[j].u] < DBL_MAX}}
            \cup {D[g.edges[i].v] + g.edges[i].cost :
                    i \in {j \in 1..Len(g.edges) :
                             g.edges[j].u = x /\ D[g.edges[j].v] < DBL_MAX}})]

RECURSIVE RelaxRounds(_, _, _, _)
\* At most n rounds, stopping when a round changes nothing.
RelaxRounds(g, V, D, n) ==
    IF n = 0 THEN D
    ELSE LET D1 == RelaxRound(g, V, D)
         IN  IF D1 = D THEN D ELSE RelaxRounds(g, V, D1, n - 1)

\* The minimum total cost over all paths from s to each vertex, DBL_MAX when
\* there is no path.
MinPathCost(g, s) ==
    LET V == Vertices(g) \cup {s}
    IN  RelaxRounds(g, V, [x \in V |-> IF x = s THEN 0 ELSE DBL_MAX], Cardinality(V))

EndpointsDeclared(g) ==
    \A i \in 1..Len(g.edges) : hasNode(g, g.edges[i].u) /\ hasNode(g, g.edges[i].v)

\* C4: on a graph whose edge endpoints are all declared locations, dijkstra maps
\* every declared location to the minimum path cost from the source (DBL_MAX
\* when there is no path); the source's entry is 0 and no entry is negative.
C4_DijkstraMinimal ==
    (pc = "dijkstraDone" /\ EndpointsDeclared(graph)) =>
        /\ \A n \in getAllNodeIds(graph) :
              n \in DOMAIN distances /\ distances[n] = MinPathCost(graph, source)[n]
        /\ distances[source] = 0
        /\ \A n \in DOMAIN distances : distances[n] >= 0

\* C4 witness: a declared location whose direct road from the source costs more
\* than its shortest path, and another one with no path at all.
C4_Witness ==
    /\ pc = "dijkstraDone"
    /\ EndpointsDeclared(graph)
    /\ \E n \in getAllNodeIds(graph) :
          /\ getEdgeCost(graph, source, n) > distances[n]
          /\ distances[n] > 0
    /\ \E n \in getAllNodeIds(graph) : distances[n] = DBL_MAX

\* C5: an id that only edges mention is a normal vertex for dijkstra: every
\* vertex, declared or not, gets its minimum path cost over the roads as given.
C5_UndeclaredIdsAreVertices ==
    pc = "dijkstraDone" =>
        \A x \in Vertices(graph) : DistOf(distances, x) = MinPathCost(graph, source)[x]

----------------------------------------------------------------------------
(* Properties of twoOpt *)

RECURSIVE SumEdgeCosts(_, _, _)
\* Sum of getEdgeCost over the consecutive pairs of r from the k-th on.
SumEdgeCosts(g, r, k) ==
    IF k > Len(r) - 1 THEN 0
    ELSE getEdgeCost(g, r[k], r[k + 1]) + SumEdgeCosts(g, r, k + 1)

AllDirectRoads(g, r) ==
    \A k \in 1..(Len(r) - 1) : getEdgeCost(g, r[k], r[k + 1]) /= NotFound

\* How often id x occurs in r.
Count(r, x) == Cardinality({k \in 1..Len(r) : r[k] = x})

\* C6: for an input route whose consecutive pairs all have a direct road, the
\* returned route's sum of edge costs is at most the input's.
C6_TwoOptNoWorse ==
    (pc = "twoOptDone" /\ AllDirectRoads(graph, route)) =>
        SumEdgeCosts(graph, bestRoute, 1) <= SumEdgeCosts(graph, route, 1)

\* C6 witness: a call on a route with all direct roads that returned a
\* strictly cheaper route.
C6_Witness ==
    /\ pc = "twoOptDone"
    /\ AllDirectRoads(graph, route)
    /\ SumEdgeCosts(graph, bestRoute, 1) < SumEdgeCosts(graph, route, 1)

\* C7: the returned route has the input's length, multiset of ids, first and
\* last element; an input of length <= 3 is returned unchanged.
C7_TwoOptPermutation ==
    pc = "twoOptDone" =>
        /\ Len(bestRoute) = Len(route)
        /\ \A x \in NodeIds : Count(bestRoute, x) = Count(route, x)
        /\ route /= <<>> =>
              bestRoute[1] = route[1] /\ bestRoute[Len(route)] = route[Len(route)]
        /\ Len(route) <= 3 => bestRoute = route

\* C7 witness: a call that returned a reordered route.
C7_Witness ==
    /\ pc = "twoOptDone"
    /\ bestRoute /= route

\* Longest finalized route (depot ... depot) twoOpt is run to completion on.
MaxTourLen == 5

\* Finalized routes, as main passes them to twoOpt: from the depot back to
\* it, over other locations in between, never staying in place.
TwoOptTours ==
    {r \in SeqsUpTo(NodeIds, MaxTourLen) :
        /\ r /= <<>> => (r[1] = Depot /\ r[Len(r)] = Depot)
        /\ \A k \in 2..(Len(r) - 1) : r[k] /= Depot
        /\ \A k \in 1..(Len(r) - 1) : r[k] /= r[k + 1]}

\* Road tables in which only the road between 1 and 2 may be missing.
TourTables ==
    {t \in RoadTables(NodeIds, TwoOptCosts) :
        \A p \in DOMAIN t : t[p] = NoRoad => p = <<1, 2>>}

InitTwoOptTours ==
    /\ \E table \in TourTables :
          graph = LoadGraph({Node(i, 1, 1) : i \in NodeIds}, TableEdges(table))
    /\ pc = "ready"
    /\ source = Depot
    /\ distances = EmptyMap
    /\ route \in TwoOptTours
    /\ bestRoute = <<>>
    /\ improved = FALSE
    /\ vehicles = <<>>
    /\ assignedVehicles = <<>>
    /\ nodesToAssign = <<>>
    /\ nextNode = 0
    /\ target = Depot
    /\ path = <<>>
    /\ routeCost = ZeroCost
    /\ calls = <<>>

\* The while loop is sequential code: a pass that can run does run.
FairSpecTwoOpt == InitTwoOptTours /\ [][NextTwoOpt]_vars /\ WF_vars(NextTwoOpt)

\* C8: every call of twoOpt returns; on the way each accepted reversal gives
\* a route of strictly lower total cost than the one it replaces.
C8_TwoOptTerminates ==
    /\ <>(pc = "twoOptDone")
    /\ [][(pc = "twoOptLoop" /\ bestRoute' /= bestRoute) =>
             /\ AllDirectRoads(graph, bestRoute) /\ AllDirectRoads(graph, bestRoute')
             /\ SumEdgeCosts(graph, bestRoute', 1) < SumEdgeCosts(graph, bestRoute, 1)]_vars

\* C8 witness: a call that ran more than one accepted reversal before the
\* pass that found none.
C8_Witness ==
    /\ pc = "twoOptDone"
    /\ Len(route) > 3
    /\ ~improved
    /\ bestRoute /= route
    /\ \A i \in 1..(Len(route) - 3) : \A j \in (i + 1)..(Len(route) - 2) :
          bestRoute /= ReverseSegment(route, i, j)

----------------------------------------------------------------------------
(* Properties of allocateVehicles *)

\* The locations allocateVehicles is to serve: declared, not the depot,
\* demand > 0.
DemandLocations(g) == {x \in DOMAIN g.nodes : x /= Depot /\ g.nodes[x].demand > 0}

\* The places (vehicle, position) at which id x stands in the routes.
Occurrences(vs, x) ==
    {p \in (1..Len(vs)) \X (1..(Cardinality(DOMAIN graph.nodes) + 2)) :
        p[2] <= Len(vs[p[1]].route) /\ vs[p[1]].route[p[2]] = x}

Last(r) == r[Len(r)]

\* C1: at every step of allocateVehicles and in the result, no vehicle's load
\* exceeds its capacity (capacity - currentLoad is never negative).
C1_LoadWithinCapacity ==
    pc \in {"assign", "allocDone"} =>
        \A i \in 1..Len(assignedVehicles) :
            assignedVehicles[i].capacity - assignedVehicles[i].currentLoad >= 0

\* C1 witness: a result with a full vehicle and a location the depot has a
\* path to that is in no route.
C1_Witness ==
    /\ pc = "allocDone"
    /\ \E i \in 1..Len(assignedVehicles) :
          /\ assignedVehicles[i].currentLoad = assignedVehicles[i].capacity
          /\ Len(assignedVehicles[i].route) > 2
    /\ \E x \in DemandLocations(graph) :
          /\ Occurrences(assignedVehicles, x) = {}
          /\ MinPathCost(graph, Depot)[x] < DBL_MAX

\* C2: in the result every location with demand stands in at most one route,
\* at most once.
C2_AssignedAtMostOnce ==
    pc = "allocDone" =>
        \A x \in DemandLocations(graph) : Cardinality(Occurrences(assignedVehicles, x)) <= 1

\* C2 witness: a result in which two vehicles each serve a location.
C2_Witness ==
    /\ pc = "allocDone"
    /\ \E i, j \in 1..Len(assignedVehicles) :
          i /= j /\ Len(assignedVehicles[i].route) > 2 /\ Len(assignedVehicles[j].route) > 2

\* C3: every returned route has at least two elements, starts and ends with
\* the depot and has no depot in between.
C3_DepotOnlyAtEnds ==
    pc = "allocDone" =>
        \A i \in 1..Len(assignedVehicles) :
            LET r == assignedVehicles[i].route
            IN  /\ Len(r) >= 2
                /\ r[1] = Depot
                /\ r[Len(r)] = Depot
                /\ \A k \in 2..(Len(r) - 1) : r[k] /= Depot

\* C3 witness: the depot is a declared location with demand and the top
\* priority, and a vehicle serves two locations.
C3_Witness ==
    /\ pc = "allocDone"
    /\ hasNode(graph, Depot)
    /\ getNode(graph, Depot).demand > 0
    /\ \A x \in DOMAIN graph.nodes : getNode(graph, Depot).priority >= getNode(graph, x).priority
    /\ \E i \in 1..Len(assignedVehicles) : Len(assignedVehicles[i].route) = 4

\* The vehicles as they were before the last step appended x to vehicle b.
BeforeAppend(vs, b, x) ==
    [i \in 1..Len(vs) |->
        IF i = b
        THEN [vs[i] EXCEPT !.route = SubSeq(@, 1, Len(@) - 1),
                           !.currentLoad = @ - getNode(graph, x).demand]
        ELSE vs[i]]

\* C9: whenever a step has appended a location to a vehicle, that vehicle
\* passed the capacity check and had the least shortest-path distance from its
\* route tail to the location among the vehicles that passed it, and the
\* lowest index among those with that distance.
C9_MinimumDistanceVehicle ==
    (pc = "assign" /\ nextNode > 1) =>
        LET x == nodesToAssign[nextNode - 1]
        IN  \A chosen \in 1..Len(assignedVehicles) :
                Last(assignedVehicles[chosen].route) = x =>
                    LET before == BeforeAppend(assignedVehicles, chosen, x)
                        feasible == {i \in 1..Len(before) :
                                        before[i].currentLoad + getNode(graph, x).demand
                                            <= before[i].capacity}
                        Dist(i) == MinPathCost(graph, Last(before[i].route))[x]
                    IN  /\ chosen \in feasible
                        /\ \A i \in feasible :
                              \/ Dist(chosen) < Dist(i)
                              \/ (Dist(chosen) = Dist(i) /\ chosen <= i)

\* Descending priority, ascending id among equal priorities.
AscendingIdOrder(g) ==
    CHOOSE order \in SortedOrders(g, CollectNodes(g)) :
        \A k, l \in 1..Len(order) :
            (k < l /\ getNode(g, order[k]).priority = getNode(g, order[l]).priority)
                => order[k] < order[l]

RECURSIVE AssignFrom(_, _, _, _)
\* The vehicles after the assignment loop over order from position k on.
AssignFrom(g, avs, order, k) ==
    IF k > Len(order) THEN avs
    ELSE AssignFrom(g, AssignNode(g, avs, order[k]), order, k + 1)

\* C10: the returned routes and loads do not depend on the order in which the
\* graph lists its ids: they are what the order "descending priority, then
\* ascending id" gives.
C10_ResultIndependentOfEnumeration ==
    pc = "allocDone" =>
        assignedVehicles =
            [i \in 1..Len(vehicles) |->
                finalizeRoute(AssignFrom(graph, vehicles, AscendingIdOrder(graph), 1)[i])]

\* The vehicles that pass the capacity check for location x.
CanServeSet(vs, x) ==
    {i \in 1..Len(vs) : canServe(vs[i], getNode(graph, x).demand)}

\* C11: during the assignment loop every location in a route was appended to
\* a tail that has a path to it: for each consecutive pair of a route both the
\* distance dijkstra returns and the minimum path cost are below the no-path
\* value DBL_MAX.
C11_NoPathNeverWins ==
    pc = "assign" =>
        \A i \in 1..Len(assignedVehicles) :
            LET r == assignedVehicles[i].route
            IN  \A k \in 1..(Len(r) - 1) :
                    /\ DistOf(dijkstra(graph, r[k]), r[k + 1]) < DBL_MAX
                    /\ MinPathCost(graph, r[k])[r[k + 1]] < DBL_MAX

\* C11 witness: the step for location x has run, exactly one vehicle passes
\* the capacity check for x, its tail has no path to x, and x is in no route.
C11_Witness ==
    /\ pc = "assign"
    /\ nextNode > 1
    /\ Len(assignedVehicles) > 1
    /\ LET x == nodesToAssign[nextNode - 1]
       IN  /\ Occurrences(assignedVehicles, x) = {}
           /\ \E i \in 1..Len(assignedVehicles) :
                 /\ CanServeSet(assignedVehicles, x) = {i}
                 /\ DistOf(dijkstra(graph, Last(assignedVehicles[i].route)), x) = DBL_MAX
                 /\ MinPathCost(graph, Last(assignedVehicles[i].route))[x] = DBL_MAX

\* The vehicles that pass the capacity check for x and whose route tail has a
\* path of finite cost to x.
FeasibleVehicles(vs, x) ==
    {i \in CanServeSet(vs, x) : MinPathCost(graph, Last(vs[i].route))[x] < DBL_MAX}

\* C12: the step that considers location x leaves x out of every route exactly
\* when no vehicle both passes the capacity check and has a finite
\* shortest-path distance from its tail to x; the step then changes no load
\* and no route and the loop goes on to the next location.  No other step
\* adds x to a route or takes it out, so x is absent from the returned routes
\* exactly in that case.
C12_UnassignedIffNoFeasibleVehicle ==
    [][(pc = "assign" /\ nextNode <= Len(nodesToAssign)) =>
          LET x == nodesToAssign[nextNode]
              feasible == FeasibleVehicles(assignedVehicles, x)
          IN  /\ Occurrences(assignedVehicles, x) = {}
              /\ (Occurrences(assignedVehicles', x) = {}) <=> (feasible = {})
              /\ feasible = {} => assignedVehicles' = assignedVehicles
              /\ pc' = "assign" /\ nextNode' = nextNode + 1
              /\ \A y \in DemandLocations(graph) \ {x} :
                    (Occurrences(assignedVehicles', y) = {})
                        <=> (Occurrences(assignedVehicles, y) = {})]_vars

RECURSIVE SumDemands(_, _)
\* The total demand of a set of declared locations.
SumDemands(g, S) ==
    IF S = {} THEN 0
    ELSE LET x == CHOOSE y \in S : TRUE
         IN  getNode(g, x).demand + SumDemands(g, S \ {x})

\* One vehicle, with capacity for the demand of all locations, each of which
\* is connected to the depot.
SingleVehicleSuffices ==
    /\ Len(vehicles) = 1
    /\ vehicles[1].capacity >= SumDemands(graph, DemandLocations(graph))
    /\ \A x \in DemandLocations(graph) : MinPathCost(graph, Depot)[x] < DBL_MAX

\* C13: with one vehicle whose capacity covers the total demand, on a graph
\* where every location with demand is connected to the depot, the returned
\* route is the depot, every such location once in non-increasing priority
\* order, the depot, and the load is the total demand; twoOpt of that route
\* still holds every such location.  In the three-location scenario the route
\* is [0, 2, 1, 0] with load 10.
C13_SingleVehicleServesAll ==
    /\ (pc = "allocDone" /\ SingleVehicleSuffices) =>
          LET r == assignedVehicles[1].route
          IN  /\ Len(r) = Cardinality(DemandLocations(graph)) + 2
              /\ r[1] = Depot /\ r[Len(r)] = Depot
              /\ \A x \in DemandLocations(graph) : Count(r, x) = 1
              /\ \A k \in 2..(Len(r) - 2) :
                    getNode(graph, r[k]).priority >= getNode(graph, r[k + 1]).priority
              /\ assignedVehicles[1].currentLoad = SumDemands(graph, DemandLocations(graph))
    /\ (pc = "mainDone" /\ SingleVehicleSuffices) =>
          \A x \in DemandLocations(graph) : Count(vehicles[1].route, x) = 1
    /\ (pc = "allocDone" /\ graph = SingleVehicleGraph) =>
          /\ assignedVehicles[1].route = <<0, 2, 1, 0>>
          /\ assignedVehicles[1].currentLoad = 10
    /\ (pc = "mainDone" /\ graph = SingleVehicleGraph) =>
          Count(vehicles[1].route, 1) = 1 /\ Count(vehicles[1].route, 2) = 1

\* The two-vehicle scenario on a graph where both locations are connected to
\* the depot.
TwoVehicleScenario ==
    /\ vehicles = <<Vehicle(1, 5), Vehicle(2, 5)>>
    /\ {graph.nodes[x] : x \in DOMAIN graph.nodes} \in TwoVehicleNodeSets
    /\ \A x \in DemandLocations(graph) : MinPathCost(graph, Depot)[x] < DBL_MAX

\* C14: with two vehicles of capacity 5 and two locations of demand 5
\* (priorities 5 and 1), both connected to the depot, each returned route is
\* the depot, one location, the depot; the two routes hold different
\* locations and each vehicle's load is 5.
C14_OneLocationEach ==
    (pc = "allocDone" /\ TwoVehicleScenario) =>
        /\ \A i \in 1..2 :
              /\ Len(assignedVehicles[i].route) = 3
              /\ assignedVehicles[i].route[2] \in DemandLocations(graph)
              /\ assignedVehicles[i].currentLoad = 5
        /\ assignedVehicles[1].route[2] /= assignedVehicles[2].route[2]

\* The interior reversals [i, j] (0-based, 1 <= i < j <= len - 2) of r that
\* give a route with every direct road present and a strictly lower total cost.
ImprovingReversals(g, r) ==
    {p \in (1..(Len(r) - 2)) \X (1..(Len(r) - 2)) :
        /\ p[1] < p[2]
        /\ AllDirectRoads(g, ReverseSegment(r, p[1], p[2]))
        /\ SumEdgeCosts(g, ReverseSegment(r, p[1], p[2]), 1) < SumEdgeCosts(g, r, 1)}

\* C15: for an input route with every direct road present that has a strictly
\* improving interior reversal, the returned route costs strictly less than
\* the input, has every direct road present and has no strictly improving
\* interior reversal left.
C15_TwoOptLocalOptimum ==
    (/\ pc = "twoOptDone"
     /\ AllDirectRoads(graph, route)
     /\ ImprovingReversals(graph, route) /= {}) =>
        /\ SumEdgeCosts(graph, bestRoute, 1) < SumEdgeCosts(graph, route, 1)
        /\ AllDirectRoads(graph, bestRoute)
        /\ ImprovingReversals(graph, bestRoute) = {}

\* C15 witness: such a call in which the first accepted reversal left another
\* improving reversal, so that a second one was accepted.
C15_Witness ==
    /\ pc = "twoOptDone"
    /\ AllDirectRoads(graph, route)
    /\ ImprovingReversals(graph, route) /= {}
    /\ ImprovingReversals(graph, ScanPairs(graph, route, 1, 2).bestRoute) /= {}
    /\ SumEdgeCosts(graph, bestRoute, 1) < SumEdgeCosts(graph, route, 1)

----------------------------------------------------------------------------
(* Properties of astar *)

\* |id - target| never exceeds the minimum path cost from id to the target.
HeuristicAdmissible(g, t) ==
    \A id \in Vertices(g) : Abs(id - t) <= MinPathCost(g, t)[id]

\* C16: when |id - target| never exceeds the remaining minimum path cost, the
\* path astar returns leads from the source to the target over direct roads
\* and its total cost is dijkstra(graph, source)[target]; it is empty when
\* that distance is DBL_MAX.
C16_AstarCostEqualsDijkstra ==
    (pc = "astarDone" /\ HeuristicAdmissible(graph, target)) =>
        IF path = <<>> THEN DistOf(distances, target) = DBL_MAX
        ELSE /\ path[1] = source
             /\ Last(path) = target
             /\ AllDirectRoads(graph, path)
             /\ SumEdgeCosts(graph, path, 1) = DistOf(distances, target)

----------------------------------------------------------------------------
(* Properties of calculateRouteCost *)

\* The positions of the edge list whose edge joins u and v.
EdgesJoining(g, u, v) ==
    {k \in 1..Len(g.edges) :
        \/ (g.edges[k].u = u /\ g.edges[k].v = v)
        \/ (g.edges[k].u = v /\ g.edges[k].v = u)}

\* The first-added edge joining u and v.
FirstEdge(g, u, v) == g.edges[Min(EdgesJoining(g, u, v))]

\* The pairs (positions k, k + 1) of r that have a direct road.
RoadPairs(g, r) == {k \in 1..(Len(r) - 1) : EdgesJoining(g, r[k], r[k + 1]) /= {}}

RECURSIVE SumOver(_, _, _)
\* Sum of the edge cost over a set of pairs of r.
SumOver(g, r, K) ==
    IF K = {} THEN 0
    ELSE LET k == CHOOSE x \in K : TRUE
         IN  FirstEdge(g, r[k], r[k + 1]).cost + SumOver(g, r, K \ {k})

RECURSIVE ProductOver(_, _, _)
\* Product of the reliability percentages over a set of pairs of r.
ProductOver(g, r, K) ==
    IF K = {} THEN 1
    ELSE LET k == CHOOSE x \in K : TRUE
         IN  FirstEdge(g, r[k], r[k + 1]).reliability * ProductOver(g, r, K \ {k})

\* C17: for a route of at least 2 nodes totalTime is the sum of the edge cost
\* over exactly the consecutive pairs that have a direct road, and
\* reliabilityPenalty is 1 minus the product of the reliabilities over the same
\* pairs; with no such pair totalTime and reliabilityPenalty are 0.
C17_CostOverRoadPairs ==
    (pc = "costDone" /\ Len(vehicles[1].route) >= 2) =>
        LET r == vehicles[1].route
            K == RoadPairs(graph, r)
        IN  /\ routeCost.totalTime = SumOver(graph, r, K)
            /\ routeCost.reliabilityPenalty
                  = RelScale - ProductOver(graph, r, K) * (RelScale \div (100 ^ Cardinality(K)))
            /\ K = {} => (routeCost.totalTime = 0 /\ routeCost.reliabilityPenalty = 0)

\* C17 witness: a scored route with a pair that has a road of positive cost
\* and reliability below 1, and a pair that has no road.
C17_Witness ==
    /\ pc = "costDone"
    /\ Len(vehicles[1].route) = 3
    /\ Cardinality(RoadPairs(graph, vehicles[1].route)) = 1
    /\ routeCost.totalTime > 0
    /\ routeCost.reliabilityPenalty > 0

\* C18: for a route of fewer than 2 nodes every field of the result is 0,
\* whatever the capacity and the load are.
C18_ShortRouteAllZero ==
    (pc = "costDone" /\ Len(vehicles[1].route) < 2) =>
        /\ routeCost.totalTime = 0
        /\ routeCost.reliabilityPenalty = 0
        /\ routeCost.idleTime = 0
        /\ routeCost.finalScore = 0

\* C18 witness: a one-node route scored for a vehicle with unused capacity.
C18_Witness ==
    /\ pc = "costDone"
    /\ Len(vehicles[1].route) = 1
    /\ vehicles[1].capacity - vehicles[1].currentLoad > 0

----------------------------------------------------------------------------
(* Properties of the Graph class, stated over the calls made *)

\* The ids the calls can name, and one id no call names.
LookupIds == GraphIds \cup {3}

\* The positions of the addEdge calls whose edge joins u and v.
EdgeCallsJoining(u, v) ==
    {k \in 1..Len(calls) :
        /\ calls[k].op = "addEdge"
        /\ \/ (calls[k].edge.u = u /\ calls[k].edge.v = v)
           \/ (calls[k].edge.u = v /\ calls[k].edge.v = u)}

\* C19: getEdgeCost(u, v) and getEdgeReliability(u, v) are the cost and the
\* reliability of the first addEdge call that joined u and v, and -1 and 0
\* when no call joined them; every later edge of the pair is kept in the
\* graph; the results for (u, v) and (v, u) are equal.
C19_FirstAddedEdgeOrSentinel ==
    \A u \in LookupIds, v \in LookupIds :
        LET J == EdgeCallsJoining(u, v)
        IN  /\ IF J = {}
               THEN getEdgeCost(graph, u, v) = -1 /\ getEdgeReliability(graph, u, v) = 0
               ELSE /\ getEdgeCost(graph, u, v) = calls[Min(J)].edge.cost
                    /\ getEdgeReliability(graph, u, v) = calls[Min(J)].edge.reliability
            /\ Cardinality({k \in 1..Len(graph.edges) :
                              \/ (graph.edges[k].u = u /\ graph.edges[k].v = v)
                              \/ (graph.edges[k].u = v /\ graph.edges[k].v = u)})
                  = Cardinality(J)
            /\ getEdgeCost(graph, u, v) = getEdgeCost(graph, v, u)
            /\ getEdgeReliability(graph, u, v) = getEdgeReliability(graph, v, u)

\* C19 witness: two ids joined first by an edge (u, v) and later by an edge
\* (v, u) of another cost and reliability, and a pair of ids no edge joins.
C19_Witness ==
    /\ \E k, l \in 1..Len(calls) :
          /\ k < l
          /\ calls[k].op = "addEdge" /\ calls[l].op = "addEdge"
          /\ calls[k].edge.u /= calls[k].edge.v
          /\ calls[l].edge.u = calls[k].edge.v /\ calls[l].edge.v = calls[k].edge.u
          /\ calls[l].edge.cost /= calls[k].edge.cost
          /\ getEdgeCost(graph, calls[l].edge.u, calls[l].edge.v) = calls[k].edge.cost
    /\ \E u \in GraphIds, v \in GraphIds : getEdgeCost(graph, u, v) = -1

RECURSIVE NeighborsFromCalls(_, _)
\* The neighbor entries a sequence of calls gives id x: for each addEdge call
\* in order, the other endpoint with the edge, once for each endpoint that is x.
NeighborsFromCalls(cs, x) ==
    IF cs = <<>> THEN <<>>
    ELSE LET c == cs[Len(cs)]
             before == NeighborsFromCalls(SubSeq(cs, 1, Len(cs) - 1), x)
         IN  IF c.op /= "addEdge" THEN before
             ELSE before
                    \o (IF c.edge.u = x THEN <<[first |-> c.edge.v, second |-> c.edge]>> ELSE <<>>)
                    \o (IF c.edge.v = x THEN <<[first |-> c.edge.u, second |-> c.edge]>> ELSE <<>>)

\* C20: getNeighbors(x) lists, in call order, one entry for each addEdge call
\* with x as an endpoint, holding the other endpoint and the edge; numEdges is
\* the number of addEdge calls; an id no edge names has no neighbors.
C20_NeighborsInInsertionOrder ==
    /\ \A x \in LookupIds :
          /\ getNeighbors(graph, x) = NeighborsFromCalls(calls, x)
          /\ (\A y \in LookupIds : EdgeCallsJoining(x, y) = {}) => getNeighbors(graph, x) = <<>>
    /\ numEdges(graph) = Cardinality({k \in 1..Len(calls) : calls[k].op = "addEdge"})

\* C20 witness: an id with two neighbor entries from two calls, the edges of
\* different cost, and an added node without neighbors.
C20_Witness ==
    /\ numEdges(graph) = 2
    /\ \E x \in GraphIds :
          /\ Len(getNeighbors(graph, x)) = 2
          /\ getNeighbors(graph, x)[1].second.cost /= getNeighbors(graph, x)[2].second.cost
          /\ getNeighbors(graph, x)[1].first /= x
          /\ getNeighbors(graph, x)[2].first /= x
    /\ \E y \in GraphIds : hasNode(graph, y) /\ getNeighbors(graph, y) = <<>>

\* s is an initial part of t.
IsPrefix(s, t) == Len(s) <= Len(t) /\ \A k \in 1..Len(s) : t[k] = s[k]

\* Entry [first, second] stands in the neighbor list of x.
InNeighbors(g, x, other, edge) ==
    \E k \in 1..Len(getNeighbors(g, x)) :
        getNeighbors(g, x)[k] = [first |-> other, second |-> edge]

\* No call removes or changes an edge: the edge list and every neighbor list
\* only grow at the end, and every edge stands under both endpoints.
EdgesKept ==
    /\ IsPrefix(graph.edges, graph'.edges)
    /\ \A x \in LookupIds : IsPrefix(getNeighbors(graph, x), getNeighbors(graph', x))
    /\ \A k \in 1..Len(graph'.edges) :
          LET e == graph'.edges[k]
          IN  InNeighbors(graph', e.u, e.v, e) /\ InNeighbors(graph', e.v, e.u, e)

\* C21 as stated: no call changes the demand or priority of a location that
\* is in the graph, and no call removes or changes an edge.
C21_WriteOnce ==
    [][/\ \A id \in DOMAIN graph.nodes :
             id \in DOMAIN graph'.nodes /\ graph'.nodes[id] = graph.nodes[id]
       /\ EdgesKept]_vars

\* C21, amended: a location in the graph stays in it, and its demand and
\* priority change only by an addNode call for its own id, which replaces
\* them by the ones passed; no call removes or changes an edge.
C21_LatestNodeEdgesKept ==
    [][/\ \A id \in DOMAIN graph.nodes :
             /\ id \in DOMAIN graph'.nodes
             /\ graph'.nodes[id] /= graph.nodes[id] =>
                   LET c == calls'[Len(calls')]
                   IN  c.op = "addNode" /\ c.node.id = id /\ graph'.nodes[id] = c.node
       /\ \A id \in DOMAIN graph'.nodes \ DOMAIN graph.nodes :
             LET c == calls'[Len(calls')]
             IN  c.op = "addNode" /\ c.node.id = id /\ graph'.nodes[id] = c.node
       /\ EdgesKept]_vars

\* C21 witness: a location was added, got an edge, and was added again with
\* another demand; it has the new demand and still has the edge.
C21_Witness ==
    /\ Len(calls) = 3
    /\ calls[1].op = "addNode" /\ calls[2].op = "addEdge" /\ calls[3].op = "addNode"
    /\ calls[2].edge.u = calls[1].node.id
    /\ calls[3].node.id = calls[1].node.id
    /\ calls[3].node.demand /= calls[1].node.demand
    /\ getNode(graph, calls[1].node.id).demand = calls[3].node.demand
    /\ Len(getNeighbors(graph, calls[1].node.id)) > 0

----------------------------------------------------------------------------
(* Error handling of dijkstra *)

\* C22: a call of dijkstra on an empty graph with a source that is not a
\* location of the graph does not return a distance table (it is reported as
\* an error instead).
C22_EmptyGraphRejected ==
    ~(/\ pc = "dijkstraDone"
      /\ graph = EmptyGraph
      /\ ~hasNode(graph, source))

\* C23: every route twoOpt adopts as bestRoute after the input has a direct
\* road for every consecutive pair, and an input route with a pair that has no
\* direct road is never replaced: it is returned unchanged.
C23_NoMissingRoadAccepted ==
    pc \in {"twoOptLoop", "twoOptDone"} =>
        /\ bestRoute /= route => AllDirectRoads(graph, bestRoute)
        /\ ~AllDirectRoads(graph, route) => bestRoute = route

\* C23 witness: a call returned its input, which has a pair without a direct
\* road, although an interior reversal of it has every direct road.
C23_Witness ==
    /\ pc = "twoOptDone"
    /\ Len(route) > 3
    /\ ~AllDirectRoads(graph, route)
    /\ bestRoute = route
    /\ \E i \in 1..(Len(route) - 2), j \in 1..(Len(route) - 2) :
          i < j /\ AllDirectRoads(graph, ReverseSegment(route, i, j))

----------------------------------------------------------------------------
(* Loads and routes during allocateVehicles *)

RECURSIVE RouteDemand(_, _, _)
\* The sum of the demands of the non-depot locations of r from position k on.
RouteDemand(g, r, k) ==
    IF k > Len(r) THEN 0
    ELSE (IF r[k] = Depot THEN 0 ELSE getNode(g, r[k]).demand) + RouteDemand(g, r, k + 1)

\* The vehicles a step changes.
ChangedVehicles == {i \in 1..Len(assignedVehicles) : assignedVehicles'[i] /= assignedVehicles[i]}

\* C24: during allocateVehicles and in its result each vehicle's currentLoad
\* is the sum of the demands of the non-depot locations of its route; a step
\* of the assignment loop changes at most one vehicle, by appending the
\* location of the step to its route and adding its demand to the load; no
\* step removes or changes a route element or lowers a load.
C24_LoadIsRouteDemand ==
    /\ [](pc \in {"assign", "allocDone"} =>
            \A i \in 1..Len(assignedVehicles) :
                assignedVehicles[i].currentLoad
                    = RouteDemand(graph, assignedVehicles[i].route, 1))
    /\ [][pc = "assign" =>
            /\ Len(assignedVehicles') = Len(assignedVehicles)
            /\ \A i \in 1..Len(assignedVehicles) :
                  /\ IsPrefix(assignedVehicles[i].route, assignedVehicles'[i].route)
                  /\ assignedVehicles'[i].currentLoad >= assignedVehicles[i].currentLoad
            /\ nextNode <= Len(nodesToAssign) =>
                  /\ Cardinality(ChangedVehicles) <= 1
                  /\ \A i \in ChangedVehicles :
                        /\ assignedVehicles'[i].route
                              = Append(assignedVehicles[i].route, nodesToAssign[nextNode])
                        /\ assignedVehicles'[i].currentLoad
                              = assignedVehicles[i].currentLoad
                                  + getNode(graph, nodesToAssign[nextNode]).demand]_vars

\* C24 witness: a returned vehicle that serves two locations of different
\* demand, on a graph whose depot has a demand of its own.
C24_Witness ==
    /\ pc = "allocDone"
    /\ getNode(graph, Depot).demand > 0
    /\ \E i \in 1..Len(assignedVehicles) :
          /\ Len(assignedVehicles[i].route) = 4
          /\ getNode(graph, assignedVehicles[i].route[2]).demand
                /= getNode(graph, assignedVehicles[i].route[3]).demand
          /\ assignedVehicles[i].currentLoad = 3

\* C25: in every returned route each pair of consecutive locations, the last
\* location and the closing depot included, is joined by a path of finite
\* cost, and every location of the route has a path of finite cost from the
\* depot.  (A direct road between consecutive locations is not required.)
C25_ConsecutiveLocationsConnected ==
    pc = "allocDone" =>
        LET fromDepot == MinPathCost(graph, Depot)
            From(s) == IF s = Depot THEN fromDepot ELSE MinPathCost(graph, s)
        IN  \A i \in 1..Len(assignedVehicles) :
                LET r == assignedVehicles[i].route
                IN  /\ \A k \in 1..(Len(r) - 1) : From(r[k])[r[k + 1]] < DBL_MAX
                    /\ \A k \in 1..Len(r) : fromDepot[r[k]] < DBL_MAX

\* C25 witness: a returned route with a location that has no direct road from
\* the location before it, and a last location without a direct road to the
\* depot.
C25_Witness ==
    /\ pc = "allocDone"
    /\ \E i \in 1..Len(assignedVehicles) :
          LET r == assignedVehicles[i].route
          IN  /\ Len(r) = 4
              /\ getEdgeCost(graph, r[2], r[3]) = NotFound
              /\ getEdgeCost(graph, r[3], r[4]) = NotFound

====
